---- MODULE Spec2Model ----
(***************************************************************************)
(* Model of backend/strategy_api.py: a FastAPI application that supervises *)
(* one worker process through the module-level variable active_process,    *)
(* and tails the worker's log file.                                        *)
(*                                                                         *)
(* Scheduling.  Every handler is an `async def` run on one event loop, so  *)
(* a handler runs without interruption from its first statement to its     *)
(* next `await`.  The only `await` in the file is `await request.json()`   *)
(* in start_strategy_post (line 88), which sits between the liveness check *)
(* (lines 80-84) and the spawn (lines 139-146).  All the other handlers,   *)
(* including stop_strategy with its blocking time.sleep calls and          *)
(* reset_strategy with its blocking communicate call, are one step each.   *)
(* Worker processes are operating-system processes: they exit on their own *)
(* schedule, between any two steps of the event loop.                      *)
(***************************************************************************)
EXTENDS Integers, Sequences, FiniteSets, TLC

\* ---------------------------------------------------------------- bounds
\* Number of worker processes the model lets start spawn.
MaxProcs == 2
\* Number of POST start requests that may be suspended at line 88 at once.
MaxPending == 1
\* Number of abandoned maintenance (reset) processes still running.
MaxMaint == 1
\* Longest running time of the maintenance command, in time units.
MaxDuration == 32
\* Number of lines the log file may hold.
MaxLines == 2
\* Largest `limit` a caller passes to get_logs.
MaxLimit == 2
\* Longest run of blanks, bars and words tried around the separators of a line.
MaxField == 1

\* ------------------------------------------------------ program constants
\* active_process = None
NoProc == 0
\* communicate(input=auto_input, timeout=30)
ResetTimeout == 30
\* time.sleep(2) after the interrupt
StopWait1 == 2
\* time.sleep(1) after terminate()
StopWait2 == 1
\* parts = line.split(' | ', 2)
MaxSplit == 2
\* async def get_logs(limit: int = 50)
DefaultLimit == 50

VARIABLES
    active_process,  \* the module global: NoProc or the pid of the Popen handle held
    procState,       \* pid -> "unborn" | "alive" | "killed" | "exited"; "killed": sent
                     \* SIGKILL by stop and not gone yet
    pending,         \* POST start requests suspended at `await request.json()`
    maint,           \* maintenance processes abandoned by a timed-out reset, still running
    logfile,         \* iqoption_strategy.log: missing, unreadable or readable, and its lines
    resp,            \* what the most recent handler step returned, with what it saw
    started,         \* pids returned by a successful start, each until a stop or its exit
    sinceStop        \* TRUE from a successful stop until the next call of start is made

vars == <<active_process, procState, pending, maint, logfile, resp, started, sinceStop>>

Pids == 1..MaxProcs
Reqs == 1..MaxPending

\* ----------------------------------------------------------- process handle
\* Popen.poll() is None
Alive(p) == p \in Pids /\ procState[p] \in {"alive", "killed"}

\* `active_process is not None and active_process.poll() is None`
SlotAlive == active_process # NoProc /\ Alive(active_process)

\* pids already handed out by subprocess.Popen
Spawned == {p \in Pids : procState[p] # "unborn"}

\* the pid subprocess.Popen gives the next child
FreshPid == Cardinality(Spawned) + 1

Idle == [st |-> "idle", clean |-> FALSE, otherOk |-> FALSE]

\* a step that is no handler's return (a process exit, a write to the log file)
NoResp ==
    [op |-> "none", kind |-> "none", pid |-> NoProc, sent |-> <<>>, spawned |-> NoProc,
     pre |-> NoProc, preAlive |-> FALSE, after |-> {}, overlap |-> FALSE,
     nprocs |-> 0, target |-> NoProc, running |-> FALSE, waited |-> 0, exits |-> "none", checkedScript |-> FALSE, ranMaint |-> FALSE, dur |-> 0,
     limit |-> 0, fromFile |-> FALSE, logs |-> <<>>]

\* the fields every handler's return records about the state it was called in
Seen(op) ==
    [NoResp EXCEPT !.op = op, !.pre = active_process, !.preAlive = SlotAlive,
                   !.after = started, !.nprocs = Cardinality(Spawned)]

\* every suspended POST start learns that another start has just succeeded
NoteSuccess(pend, cleanRun) ==
    [r \in Reqs |-> IF pend[r].st = "await"
                    THEN [pend[r] EXCEPT !.otherOk = @ \/ cleanRun]
                    ELSE pend[r]]

\* every suspended POST start learns that a stop ran or a worker exited
NoteDisturbed(pend) ==
    [r \in Reqs |-> IF pend[r].st = "await" THEN [pend[r] EXCEPT !.clean = FALSE]
                    ELSE pend[r]]

\* ------------------------------------------------------------------ start
\* the liveness check without the cleanup of lines 40 and 84
SlotKeptAfterCheck == active_process

\* lines 34-40 and 80-84: the slot as the liveness check leaves it
\* (a handle whose process has exited is dropped)
SlotAfterCheck == IF active_process # NoProc /\ ~Alive(active_process)
                  THEN NoProc ELSE active_process

\* lines 34-37 and 80-82: does start refuse with "Strategy already running"?
StartRefuses == active_process # NoProc /\ Alive(active_process)

\* GET /strategy/start: check, spawn and assignment with no await in between
StartGet ==
    IF StartRefuses
    THEN /\ resp' = [Seen("start_get") EXCEPT !.kind = "AlreadyRunning",
                                              !.pid = active_process]
         /\ sinceStop' = FALSE
         /\ UNCHANGED <<active_process, procState, pending, maint, logfile, started>>
    ELSE \/ \* subprocess.Popen returns a handle
            /\ FreshPid \in Pids
            /\ procState' = [procState EXCEPT ![FreshPid] = "alive"]
            /\ active_process' = FreshPid
            /\ pending' = NoteSuccess(pending, TRUE)
            /\ started' = started \cup {FreshPid}
            /\ sinceStop' = FALSE
            /\ resp' = [Seen("start_get") EXCEPT !.kind = "ok", !.pid = FreshPid,
                                                 !.spawned = FreshPid]
            /\ UNCHANGED <<maint, logfile>>
         \/ \* subprocess.Popen raises: except branch, line 70
            /\ active_process' = SlotAfterCheck
            /\ sinceStop' = FALSE
            /\ resp' = [Seen("start_get") EXCEPT !.kind = "SpawnFailed"]
            /\ UNCHANGED <<procState, pending, maint, logfile, started>>

\* POST /strategy/start up to `await request.json()` (lines 80-88)
StartPostCheck ==
    IF StartRefuses
    THEN /\ resp' = [Seen("start_post") EXCEPT !.kind = "AlreadyRunning",
                                               !.pid = active_process]
         /\ sinceStop' = FALSE
         /\ UNCHANGED <<active_process, procState, pending, maint, logfile, started>>
    ELSE \E r \in Reqs :
            /\ pending[r].st = "idle"
            /\ \A q \in Reqs : q < r => pending[q].st = "await"
            /\ active_process' = SlotAfterCheck
            /\ pending' = [pending EXCEPT ![r] = [st |-> "await", clean |-> TRUE,
                                                  otherOk |-> FALSE]]
            /\ sinceStop' = FALSE
            /\ resp' = [Seen("start_post") EXCEPT !.kind = "awaiting"]
            /\ UNCHANGED <<procState, maint, logfile, started>>

\* POST /strategy/start from the return of `await request.json()` (lines 88-157)
StartPostResume(r) ==
    /\ pending[r].st = "await"
    /\ \/ \* the body parses, the command is built and subprocess.Popen returns
          /\ FreshPid \in Pids
          /\ procState' = [procState EXCEPT ![FreshPid] = "alive"]
          /\ active_process' = FreshPid
          /\ pending' = NoteSuccess([pending EXCEPT ![r] = Idle], pending[r].clean)
          /\ started' = started \cup {FreshPid}
          /\ resp' = [Seen("start_post_resume") EXCEPT
                          !.kind = "ok", !.pid = FreshPid, !.spawned = FreshPid,
                          !.overlap = pending[r].clean /\ pending[r].otherOk]
          /\ UNCHANGED <<maint, logfile>>
       \/ \* request.json(), the command building or subprocess.Popen raises: line 155
          /\ pending' = [pending EXCEPT ![r] = Idle]
          /\ resp' = [Seen("start_post_resume") EXCEPT !.kind = "SpawnFailed"]
          /\ UNCHANGED <<active_process, procState, maint, logfile, started>>
       \/ \* standard output cannot be written: a print of lines 89-137 (or
          \* request.json()) raises and then the print of line 156 raises too;
          \* the exception leaves the handler, which returns nothing
          /\ pending' = [pending EXCEPT ![r] = Idle]
          /\ resp' = [Seen("start_post_resume") EXCEPT !.kind = "raised"]
          /\ UNCHANGED <<active_process, procState, maint, logfile, started>>
    /\ UNCHANGED sinceStop

\* ----------------------------------------------------------------- status
\* GET /strategy/status (lines 195-207)
GetStatus ==
    /\ resp' = IF SlotAlive
               THEN [Seen("status") EXCEPT !.kind = "running", !.pid = active_process]
               ELSE [Seen("status") EXCEPT !.kind = "stopped"]
    /\ active_process' = IF SlotAlive THEN active_process ELSE NoProc
    /\ UNCHANGED <<procState, pending, maint, logfile, started, sinceStop>>

\* strategy_running computed from `active_process is not None` alone
HealthRunningNoPoll == active_process # NoProc

\* line 215: "strategy_running"
HealthRunning == active_process # NoProc /\ Alive(active_process)

\* lines 215, 217, 218: health_check polls the handle three times, and the
\* worker can exit between two polls; what the three polls find (alive or not)
HealthPolls ==
    IF HealthRunning
    THEN {<<TRUE, TRUE, TRUE>>, <<TRUE, TRUE, FALSE>>, <<TRUE, FALSE, FALSE>>}
    ELSE {<<FALSE, FALSE, FALSE>>}

\* GET /health (lines 213-220).  kind: "strategy_running" of line 215; pid and
\* running: "process_info" of lines 216-219 (NoProc and FALSE also stand for
\* process_info = None on an Empty slot)
HealthCheck ==
    \E polls \in HealthPolls :
        /\ resp' = [Seen("health") EXCEPT
                        !.kind = IF polls[1] THEN "strategy_running" ELSE "not_running",
                        !.pid = IF polls[2] THEN active_process ELSE NoProc,
                        !.running = polls[3]]
        /\ IF polls[1] /\ ~polls[3]
           THEN \* the worker exited while the handler ran
                /\ procState' = [procState EXCEPT ![active_process] = "exited"]
                /\ pending' = NoteDisturbed(pending)
                /\ started' = started \ {active_process}
           ELSE UNCHANGED <<procState, pending, started>>
        /\ UNCHANGED <<active_process, maint, logfile, sinceStop>>

\* ------------------------------------------------------------------- stop
\* When the process in the slot ends, as stop will find it: "before" the call,
\* during the first sleep ("wait1"), during the second ("wait2"), after
\* kill() and before the handler returns ("kill"), or not by the time the
\* handler returns ("never": nothing waits for the killed process).
ExitTimes(handle) ==
    IF Alive(handle) THEN {"wait1", "wait2", "kill", "never"} ELSE {"before"}

\* the signalling call that raises an OS-level error: none (0), the interrupt
\* (1), terminate (2) or kill (3).  A call on an exited handle cannot raise:
\* send_signal polls first and returns without signalling.
FailPointsAnyHandle(handle) == 0..3

FailPoints(handle) == IF Alive(handle) THEN 0..3 ELSE {0}

StopResult(sent, kind, ends, waited, exits) ==
    [sent |-> sent, kind |-> kind, ends |-> ends, waited |-> waited, exits |-> exits]

\* the escalation with terminate() sent without the poll of line 174
EscalateUnpolled(exits, failAt) ==
    IF failAt = 1 THEN StopResult(<<"SIGINT">>, "StopFailed", FALSE, 0, exits)
    ELSE IF failAt = 2
    THEN StopResult(<<"SIGINT", "SIGTERM">>, "StopFailed", FALSE, StopWait1, exits)
    ELSE IF exits \in {"before", "wait1", "wait2"}
    THEN StopResult(<<"SIGINT", "SIGTERM">>, "ok", TRUE, StopWait1 + StopWait2, exits)
    ELSE IF failAt = 3
    THEN StopResult(<<"SIGINT", "SIGTERM", "SIGKILL">>, "StopFailed", FALSE,
                    StopWait1 + StopWait2, exits)
    ELSE StopResult(<<"SIGINT", "SIGTERM", "SIGKILL">>, "ok", exits = "kill",
                    StopWait1 + StopWait2, exits)

\* lines 166-189: the escalation on a handle whose process ends at `exits`,
\* with the signalling call `failAt` raising.  sent: the signalling calls made
\* on the handle, in order; ends: the process is found or seen gone by the
\* time the handler returns; waited: time spent in time.sleep.
Escalate(exits, failAt) ==
    IF failAt = 1
    THEN \* line 168 raises
         StopResult(<<"SIGINT">>, "StopFailed", FALSE, 0, exits)
    ELSE IF exits \in {"before", "wait1"}
    THEN \* line 174: poll() is not None after time.sleep(2)
         StopResult(<<"SIGINT">>, "ok", TRUE, StopWait1, exits)
    ELSE IF failAt = 2
    THEN \* line 175 raises
         StopResult(<<"SIGINT", "SIGTERM">>, "StopFailed", FALSE, StopWait1, exits)
    ELSE IF exits = "wait2"
    THEN \* line 177: poll() is not None after time.sleep(1)
         StopResult(<<"SIGINT", "SIGTERM">>, "ok", TRUE, StopWait1 + StopWait2, exits)
    ELSE IF failAt = 3
    THEN \* line 178 raises
         StopResult(<<"SIGINT", "SIGTERM", "SIGKILL">>, "StopFailed", FALSE,
                    StopWait1 + StopWait2, exits)
    ELSE \* lines 178-181: kill() is sent and the slot cleared without a wait;
         \* the process may still be alive when the handler returns
         StopResult(<<"SIGINT", "SIGTERM", "SIGKILL">>, "ok", exits = "kill",
                    StopWait1 + StopWait2, exits)

\* lines 166-189: the ways stop can run on the handle in the slot.  On None
\* line 168 raises AttributeError, which line 188 turns into StopFailed.
StopOutcomes(handle) ==
    IF handle = NoProc
    THEN {StopResult(<<>>, "StopFailed", FALSE, 0, "before")}
    ELSE {Escalate(e, f) : e \in ExitTimes(handle), f \in FailPoints(handle)}

\* stop without the guard of line 163
StopNeverRefuses == FALSE

\* line 163: does stop refuse with "No active strategy running"?
StopRefuses == active_process = NoProc

\* the slot cleared on every path out of the escalation, failed or not
SlotClearedAfterStop(kind) == NoProc

\* line 181 (reached on success only): the slot after stop
SlotAfterStop(kind) == IF kind = "ok" THEN NoProc ELSE active_process

\* the escalation aimed at the oldest worker still alive, not at the slot's
OldestLiveWorker ==
    IF \E p \in Pids : Alive(p)
    THEN CHOOSE p \in Pids : Alive(p) /\ \A q \in Pids : Alive(q) => p <= q
    ELSE active_process

\* lines 168-178: the handle every signalling call and poll of stop is made
\* on; the global is read again at each of them, and nothing runs in between
SignalledHandle == active_process

\* GET /strategy/stop (lines 163-189); time.sleep blocks the event loop, so no
\* other handler runs inside it
StopStrategy ==
    IF StopRefuses
    THEN /\ resp' = [Seen("stop") EXCEPT !.kind = "NotRunning"]
         /\ UNCHANGED <<active_process, procState, pending, maint, logfile, started,
                        sinceStop>>
    ELSE \E o \in StopOutcomes(SignalledHandle) :
            /\ procState' = IF o.ends
                            THEN [procState EXCEPT ![SignalledHandle] = "exited"]
                            ELSE IF o.kind = "ok"
                            THEN \* line 178 sent the kill; the process is not gone yet
                                 [procState EXCEPT ![SignalledHandle] = "killed"]
                            ELSE procState
            /\ active_process' = SlotAfterStop(o.kind)
            /\ pending' = NoteDisturbed(pending)
            /\ started' = {}
            /\ sinceStop' = (o.kind = "ok")
            /\ resp' = [Seen("stop") EXCEPT !.kind = o.kind, !.sent = o.sent,
                                            !.waited = o.waited, !.exits = o.exits,
                                            !.target = SignalledHandle]
            /\ UNCHANGED <<maint, logfile>>

\* ------------------------------------------------------------------ reset
\* reset refusing on any occupied slot, without the poll of line 233
ResetRefusesOccupied == active_process # NoProc

\* lines 232-237: does reset refuse because the strategy is running?
ResetRefuses == active_process # NoProc /\ Alive(active_process)

\* communicate without a timeout: waits for the exit, however late
ResetWaitsForExit(d) == "exited"

\* line 260: communicate(timeout=30) on a maintenance command that runs d units
ResetWait(d) == IF d > ResetTimeout THEN "timeout" ELSE "exited"

\* running times tried for the maintenance command
Durations == {d \in 0..MaxDuration : d = 0 \/ d >= ResetTimeout - 1}

\* reset dropping a handle whose process has exited, as status does
SlotCleanedByReset == IF SlotAlive THEN active_process ELSE NoProc

\* lines 228-284: reset declares the global but never assigns it
SlotAfterReset == active_process

\* lines 256-260: the maintenance command is answered "s" twice, the second
\* time to its question whether to clean the log file as well.  The command
\* is not part of this source: the file may be left, emptied or removed.
MaintLogEffects ==
    {logfile, [state |-> "readable", lines |-> <<>>], [state |-> "missing", lines |-> <<>>]}

\* GET /strategy/reset (lines 230-284); communicate blocks the event loop
ResetStrategy ==
    /\ active_process' = SlotAfterReset
    /\ UNCHANGED <<procState, pending, started, sinceStop>>
    /\ IF ResetRefuses
       THEN /\ resp' = [Seen("reset") EXCEPT !.kind = "ResetBlocked"]
            /\ UNCHANGED <<maint, logfile>>
       ELSE \/ \* os.path.exists(reset_script) is false
               /\ resp' = [Seen("reset") EXCEPT !.kind = "ResetScriptMissing",
                                                !.checkedScript = TRUE]
               /\ UNCHANGED <<maint, logfile>>
            \/ \* subprocess.Popen raises: line 280
               /\ resp' = [Seen("reset") EXCEPT !.kind = "ResetException",
                                                !.checkedScript = TRUE]
               /\ UNCHANGED <<maint, logfile>>
            \/ \* the maintenance command is spawned, runs d units, exits with rc;
               \* decodes: communicate (line 260, text=True) can decode its output
               \E d \in Durations, rc \in {0, 1}, decodes \in BOOLEAN :
                  /\ ResetWait(d) = "timeout" => (maint < MaxMaint /\ decodes)
                  /\ maint' = IF ResetWait(d) = "timeout" THEN maint + 1 ELSE maint
                  /\ logfile' \in MaintLogEffects
                  /\ resp' = [Seen("reset") EXCEPT
                                  !.kind = IF ResetWait(d) = "timeout" THEN "ResetTimeout"
                                           ELSE IF ~decodes THEN "ResetException"
                                           ELSE IF rc = 0 THEN "ok" ELSE "ResetFailed",
                                  !.checkedScript = TRUE, !.ranMaint = TRUE, !.dur = d]

\* a maintenance process abandoned by a timed-out reset ends, having done
\* to the log file what it still had to do
MaintExit ==
    /\ maint > 0
    /\ maint' = maint - 1
    /\ logfile' \in MaintLogEffects
    /\ resp' = NoResp
    /\ UNCHANGED <<active_process, procState, pending, started, sinceStop>>

\* ------------------------------------------------------------------- logs
\* A line is the sequence of its characters, each a one-character string (a
\* character above U+00FF is written as the name of its code point, "U+2003"),
\* without the newline that ends it in the file.  The separator ' | ' is
\* blank, bar, blank.
Sep == <<" ", "|", " ">>

\* sample lines of the worker's log
LineGood == <<"T", "1", " ", "|", " ", "I", "N", "F", "O", " ", "|", " ", "h", "e", "l", "l", "o">>
LineGarbage == <<"g", "a", "r", "b", "a", "g", "e", " ", "l", "i", "n", "e">>
LineBlank == <<" ", "", "U+2003">>
LineWarn == <<"t", " ", "|", " ", "W", "a", "r", "n", " ", "|", " ", "a", " ", "|", " ", "b">>
LineHalf == <<"x", " ", "|", " ">>
SampleLines == {LineGood, LineGarbage, LineBlank, LineWarn, LineHalf}

\* time.strftime("%Y-%m-%dT%H:%M:%S"): the wall clock, not text of the line
Now == <<"<now>">>

\* the characters str.strip() removes (those str.isspace() holds of): blank,
\* tab, newline, return, form feed, then U+000B, U+001C..U+001F, U+0085 and
\* U+00A0 written as themselves, then the white space above U+00FF, which a
\* string here cannot hold, each written as the name of its code point
Whitespace ==
    {" ", "\t", "\n", "\r", "\f",
     "", "", "", "", "", "", " ",
     "U+1680", "U+2000", "U+2001", "U+2002", "U+2003", "U+2004", "U+2005", "U+2006", "U+2007",
     "U+2008", "U+2009", "U+200A", "U+2028", "U+2029", "U+202F", "U+205F", "U+3000"}

RECURSIVE LStrip(_)
LStrip(s) == IF s # <<>> /\ Head(s) \in Whitespace THEN LStrip(Tail(s)) ELSE s

RECURSIVE RStrip(_)
RStrip(s) ==
    IF s # <<>> /\ s[Len(s)] \in Whitespace THEN RStrip(SubSeq(s, 1, Len(s) - 1)) ELSE s

\* line 307: line.strip()
Strip(s) == RStrip(LStrip(s))

\* the first position at or after i where the separator starts in s, or 0
RECURSIVE FindSep(_, _)
FindSep(s, i) ==
    IF i + Len(Sep) - 1 > Len(s) THEN 0
    ELSE IF SubSeq(s, i, i + Len(Sep) - 1) = Sep THEN i
    ELSE FindSep(s, i + 1)

\* line 311: ' | ' in line
HasSep(s) == FindSep(s, 1) # 0

\* line 312: line.split(' | ', n)
RECURSIVE Split(_, _)
Split(s, n) ==
    IF n = 0 \/ FindSep(s, 1) = 0 THEN <<s>>
    ELSE <<SubSeq(s, 1, FindSep(s, 1) - 1)>>
         \o Split(SubSeq(s, FindSep(s, 1) + Len(Sep), Len(s)), n - 1)

UpperLetters == <<"A", "B", "C", "D", "E", "F", "G", "H", "I", "J", "K", "L", "M", "N", "O", "P", "Q", "R", "S", "T", "U", "V", "W", "X", "Y", "Z">>
LowerLetters == <<"a", "b", "c", "d", "e", "f", "g", "h", "i", "j", "k", "l", "m", "n", "o", "p", "q", "r", "s", "t", "u", "v", "w", "x", "y", "z">>

\* chr.lower() == d, for an ASCII small letter d: of all characters
\* str.lower() turns only d itself, its ASCII capital and, for k, U+212A
\* (KELVIN SIGN) into d
LowersTo(c, d) ==
    \/ c = d
    \/ \E i \in 1..Len(UpperLetters) : UpperLetters[i] = c /\ LowerLetters[i] = d
    \/ (c = "U+212A" /\ d = "k")

\* lines 315-325: parts[1].lower() == word, for a word of ASCII small letters.
\* str.lower() works character by character except that U+0130 becomes two
\* characters and U+03A3 depends on its neighbours; none of the results is an
\* ASCII letter, so a field holding either never lowers to such a word.
LowerIs(field, word) ==
    /\ Len(field) = Len(word)
    /\ \A i \in 1..Len(field) : LowersTo(field[i], word[i])

\* the level names of lines 319-326
WordInfo == <<"i", "n", "f", "o">>
WordDebug == <<"d", "e", "b", "u", "g">>
WordWarn == <<"w", "a", "r", "n">>
WordWarning == <<"w", "a", "r", "n", "i", "n", "g">>
WordErr == <<"e", "r", "r">>
WordError == <<"e", "r", "r", "o", "r">>
WordCritical == <<"c", "r", "i", "t", "i", "c", "a", "l">>

\* the level mapping with the level success handed through
MapLevelPassThrough(field) ==
    IF \E w \in {WordInfo, WordDebug} : LowerIs(field, w) THEN "info"
    ELSE IF \E w \in {WordWarn, WordWarning} : LowerIs(field, w) THEN "warning"
    ELSE IF \E w \in {WordErr, WordError} : LowerIs(field, w) THEN "error"
    ELSE IF \E w \in {WordCritical} : LowerIs(field, w) THEN "error"
    ELSE IF LowerIs(field, <<"s", "u", "c", "c", "e", "s", "s">>) THEN "success"
    ELSE "info"

\* lines 315-328: the level the middle field maps to; the field is lowered
\* (line 315) and looked up in the lists of lines 319-325
MapLevel(field) ==
    IF \E w \in {WordInfo, WordDebug} : LowerIs(field, w) THEN "info"
    ELSE IF \E w \in {WordWarn, WordWarning} : LowerIs(field, w) THEN "warning"
    ELSE IF \E w \in {WordErr, WordError} : LowerIs(field, w) THEN "error"
    ELSE IF \E w \in {WordCritical} : LowerIs(field, w) THEN "error"
    ELSE "info"

\* lines 311-355: the record of one stripped, non-empty line
ParseLine(line) ==
    IF HasSep(line) /\ Len(Split(line, MaxSplit)) >= 3
    THEN [timestamp |-> Split(line, MaxSplit)[1],
          level |-> MapLevel(Split(line, MaxSplit)[2]),
          message |-> Split(line, MaxSplit)[3]]
    ELSE [timestamp |-> Now, level |-> "info", message |-> line]

\* line 308: `if line:` on the stripped line
KeepsLine(line) == Strip(line) # <<>>

\* lines 306-355: the records of the kept lines, in order
RECURSIVE ParseLines(_)
ParseLines(lines) ==
    IF lines = <<>> THEN <<>>
    ELSE (IF KeepsLine(Head(lines)) THEN <<ParseLine(Strip(Head(lines)))>> ELSE <<>>)
         \o ParseLines(Tail(lines))

\* lines[k:] of Python for any integer k
SliceFrom(lines, k) ==
    SubSeq(lines,
           (IF k < 0 THEN (IF Len(lines) + k < 0 THEN 0 ELSE Len(lines) + k)
            ELSE (IF k > Len(lines) THEN Len(lines) ELSE k)) + 1,
           Len(lines))

\* the first `limit` lines instead of the last
FirstLines(lines, limit) ==
    IF Len(lines) > limit /\ limit >= 0 THEN SubSeq(lines, 1, limit) ELSE lines

\* line 304: lines[-limit:] if len(lines) > limit else lines
RecentLines(lines, limit) ==
    IF Len(lines) > limit THEN SliceFrom(lines, 0 - limit) ELSE lines

Rec(level, message) == [timestamp |-> Now, level |-> level, message |-> message]

\* the placeholder records chosen on `active_process is not None` alone
SynthLogsNoPoll ==
    IF active_process # NoProc
    THEN <<Rec("success", <<"Algorithm ejecutandose (PID: ", ToString(active_process), ")">>),
           Rec("info", <<"Analizando mercados con algoritmos educacionales...">>),
           Rec("info", <<"Monitoreando oportunidades educacionales de trading...">>)>>
    ELSE <<Rec("info", <<"Sistema Educacional InverseNeural Lab listo para iniciar">>),
           Rec("info", <<"Configure los parametros y presione 'Activar Algoritmo'">>),
           Rec("success", <<"Plataforma educacional inicializada correctamente">>)>>

\* lines 365-402: the placeholder records
SynthLogs ==
    IF active_process # NoProc /\ Alive(active_process)
    THEN <<Rec("success", <<"Algorithm ejecutandose (PID: ", ToString(active_process), ")">>),
           Rec("info", <<"Analizando mercados con algoritmos educacionales...">>),
           Rec("info", <<"Monitoreando oportunidades educacionales de trading...">>)>>
    ELSE <<Rec("info", <<"Sistema Educacional InverseNeural Lab listo para iniciar">>),
           Rec("info", <<"Configure los parametros y presione 'Activar Algoritmo'">>),
           Rec("success", <<"Plataforma educacional inicializada correctamente">>)>>

\* os.path.exists(log_file) and the file opens and decodes (lines 298-301)
Readable == logfile.state = "readable"

\* lines 304-355: the records read from the file for this limit
FileLogs(limit) == ParseLines(RecentLines(logfile.lines, limit))

\* returning the file's records without the test of line 358
ReturnsFileLogsUntested(limit) == Readable

\* lines 298-359: does get_logs return the records read from the file?
ReturnsFileLogs(limit) == Readable /\ FileLogs(limit) # <<>>

\* line 362: the print of the inner handler, reached when the file exists
\* but open or readlines raises; it returns, or raises itself when the
\* server's standard output cannot be written
PrintOutcomes == IF logfile.state = "unreadable" THEN {"printed", "raised"} ELSE {"none"}

\* lines 406-415: the single record of the outer handler
ErrorLogs == <<Rec("error", <<"Error obteniendo logs: ", "<str(e)>">>)>>

\* GET /strategy/logs?limit=... (lines 293-415).  Outside the inner try of
\* lines 299-362 only the print of line 362 can raise (os.path.exists and
\* Popen.poll do not): it alone leads to the handler of line 406.
GetLogs(limit) ==
    /\ \E out \in PrintOutcomes :
          resp' = IF ReturnsFileLogs(limit)
                  THEN [Seen("logs") EXCEPT !.kind = "ok", !.limit = limit,
                                            !.fromFile = TRUE, !.logs = FileLogs(limit)]
                  ELSE IF out = "raised"
                  THEN [Seen("logs") EXCEPT !.kind = "error_record", !.limit = limit,
                                            !.logs = ErrorLogs]
                  ELSE [Seen("logs") EXCEPT !.kind = "ok", !.limit = limit,
                                            !.logs = SynthLogs]
    /\ UNCHANGED <<active_process, procState, pending, maint, logfile, started,
                   sinceStop>>

\* the `limit` query parameters tried
Limits == (0 - 1)..MaxLimit

NoFile == [state |-> "missing", lines |-> <<>>]

\* the worker appends a line to its log, creating the file if there is none
LogAppend(line) ==
    /\ logfile.state # "unreadable"
    /\ Len(logfile.lines) < MaxLines
    /\ logfile' = [state |-> "readable", lines |-> Append(logfile.lines, line)]
    /\ resp' = NoResp
    /\ UNCHANGED <<active_process, procState, pending, maint, started, sinceStop>>

\* the log file is created empty, or emptied
LogTruncate ==
    /\ logfile # [state |-> "readable", lines |-> <<>>]
    /\ logfile.state # "unreadable"
    /\ logfile' = [state |-> "readable", lines |-> <<>>]
    /\ resp' = NoResp
    /\ UNCHANGED <<active_process, procState, pending, maint, started, sinceStop>>

\* the log file is removed
LogRemove ==
    /\ logfile # NoFile
    /\ logfile' = NoFile
    /\ resp' = NoResp
    /\ UNCHANGED <<active_process, procState, pending, maint, started, sinceStop>>

\* the log file cannot be opened or decoded any more (open or readlines raises)
LogUnreadable ==
    /\ Readable
    /\ logfile' = [logfile EXCEPT !.state = "unreadable"]
    /\ resp' = NoResp
    /\ UNCHANGED <<active_process, procState, pending, maint, started, sinceStop>>

\* ------------------------------------------------------------ environment
\* a worker process ends by itself or is killed from outside the supervisor
WorkerExit(p) ==
    /\ Alive(p)
    /\ procState' = [procState EXCEPT ![p] = "exited"]
    /\ pending' = NoteDisturbed(pending)
    /\ started' = started \ {p}
    /\ resp' = NoResp
    /\ UNCHANGED <<active_process, maint, logfile, sinceStop>>

Init ==
    /\ active_process = NoProc
    /\ procState = [p \in Pids |-> "unborn"]
    /\ pending = [r \in Reqs |-> Idle]
    /\ maint = 0
    /\ logfile = NoFile
    /\ resp = NoResp
    /\ started = {}
    /\ sinceStop = FALSE

Next ==
    \/ StartGet
    \/ StartPostCheck
    \/ \E r \in Reqs : StartPostResume(r)
    \/ GetStatus
    \/ HealthCheck
    \/ StopStrategy
    \/ ResetStrategy
    \/ MaintExit
    \/ \E limit \in Limits : GetLogs(limit)
    \/ \E p \in Pids : WorkerExit(p)

Spec == Init /\ [][Next]_vars

\* The log reader on its own: the slot is Empty, holds a live worker or holds
\* an exited one (the three slot states get_logs tells apart), and the log
\* file changes under it.
InitLogs ==
    /\ \E st \in {"unborn", "alive", "exited"} :
          /\ procState = [p \in Pids |-> IF p = 1 THEN st ELSE "unborn"]
          /\ active_process = IF st = "unborn" THEN NoProc ELSE 1
          /\ started = IF st = "alive" THEN {1} ELSE {}
    /\ pending = [r \in Reqs |-> Idle]
    /\ maint = 0
    /\ logfile = NoFile
    /\ resp = NoResp
    /\ sinceStop = FALSE

NextLogs ==
    \/ \E limit \in Limits : GetLogs(limit)
    \/ \E line \in SampleLines : LogAppend(line)
    \/ LogTruncate
    \/ LogRemove
    \/ LogUnreadable
    \/ \E p \in Pids : WorkerExit(p)

SpecLogs == InitLogs /\ [][NextLogs]_vars

\* The line parser on its own: the file holds one line, built from a start, a
\* middle and an end with or without a separator between them, and get_logs
\* is called with the default limit.
LevelWords ==
    {<<"i", "n", "f", "o">>,
     <<"I", "N", "F", "O">>,
     <<"I", "n", "f", "o">>,
     <<"d", "e", "b", "u", "g">>,
     <<"D", "E", "B", "U", "G">>,
     <<"D", "e", "b", "u", "g">>,
     <<"w", "a", "r", "n">>,
     <<"W", "A", "R", "N">>,
     <<"W", "a", "r", "n">>,
     <<"w", "a", "r", "n", "i", "n", "g">>,
     <<"W", "A", "R", "N", "I", "N", "G">>,
     <<"W", "a", "r", "n", "i", "n", "g">>,
     <<"e", "r", "r">>,
     <<"E", "R", "R">>,
     <<"E", "r", "r">>,
     <<"e", "r", "r", "o", "r">>,
     <<"E", "R", "R", "O", "R">>,
     <<"E", "r", "r", "o", "r">>,
     <<"c", "r", "i", "t", "i", "c", "a", "l">>,
     <<"C", "R", "I", "T", "I", "C", "A", "L">>,
     <<"C", "r", "i", "t", "i", "c", "a", "l">>,
     <<"s", "u", "c", "c", "e", "s", "s">>,
     <<"S", "U", "C", "C", "E", "S", "S">>,
     <<"S", "u", "c", "c", "e", "s", "s">>,
     <<"w", "A", "R", "N", "I", "N", "G">>,
     <<"E", "r", "R", "o", "R">>,
     <<"c", "R", "i", "T", "i", "C", "a", "L">>,
     <<"E", "R", "R", "O", "R", "É">>,
     <<"É", "R", "R", "O", "R">>,
     <<"C", "R", "U+0130", "T", "U+0130", "C", "A", "L">>,
     <<"W", "A", "R", "N", "U+0130", "N", "G">>,
     <<"U+212A", "r", "i", "t", "i", "c", "a", "l">>,
     <<"E", "R", "R", "O", "U+03A3">>,
     <<"U+0395", "R", "R", "O", "R">>}

RECURSIVE Runs(_)
Runs(n) ==
    IF n = 0 THEN {<<>>}
    ELSE Runs(n - 1) \cup {Append(r, t) : r \in Runs(n - 1), t \in {" ", "|", "x", "\t"}}

Starts == Runs(MaxField)
Middles == Runs(MaxField) \cup LevelWords \cup {<<" ">> \o WordInfo, WordErr \o <<"x">>}
Ends == Runs(MaxField) \cup {<<"a">> \o Sep \o <<"b">>}
Joins == {<<>>, Sep}

ParseInputs ==
    {a \o j1 \o m \o j2 \o b : a \in Starts, j1 \in Joins, m \in Middles,
                               j2 \in Joins, b \in Ends}

InitParse ==
    /\ active_process = NoProc
    /\ procState = [p \in Pids |-> "unborn"]
    /\ pending = [r \in Reqs |-> Idle]
    /\ maint = 0
    /\ \E line \in ParseInputs : logfile = [state |-> "readable", lines |-> <<line>>]
    /\ resp = NoResp
    /\ started = {}
    /\ sinceStop = FALSE

NextParse == GetLogs(DefaultLimit)

SpecParse == InitParse /\ [][NextParse]_vars

\* ================================================================= claims
StartOps == {"start_get", "start_post", "start_post_resume"}

\* C1: at no time do two worker processes spawned by start exist that have
\* not exited; a worker sent the forced kill counts as ended.
AtMostOneLiveWorker == Cardinality({p \in Pids : procState[p] = "alive"}) <= 1

\* C2: of two start requests that overlap in time, with no stop and no worker
\* exit during either, at most one returns success with a pid.
OverlappingStartsExclusive ==
    ~(resp.op \in StartOps /\ resp.kind = "ok" /\ resp.overlap)

\* C3: a start issued after a successful start, with no stop and no exit of
\* that worker in between, fails with AlreadyRunning carrying that worker's
\* pid, spawns nothing, signals nothing and leaves that worker in the slot.
StartAfterStartRefused ==
    resp.op \in {"start_get", "start_post"}
        => \A w \in resp.after :
              /\ resp.kind = "AlreadyRunning"
              /\ resp.pid = w
              /\ resp.spawned = NoProc
              /\ resp.sent = <<>>
              /\ active_process = w
              /\ Alive(w)

\* C4: stop called on an Empty slot fails with NotRunning, makes no
\* signalling call and changes nothing: the slot is still Empty.
StopOnEmptyIsNoOp ==
    [][(resp'.op = "stop" /\ active_process = NoProc)
          => /\ resp'.kind = "NotRunning"
             /\ resp'.sent = <<>>
             /\ active_process' = NoProc
             /\ UNCHANGED <<procState, pending, maint, logfile>>]_vars

StopOnEmptySeen ==
    /\ resp.op = "stop"
    /\ resp.pre = NoProc
    /\ resp.kind = "NotRunning"
    /\ active_process = NoProc

\* C5: when stop returns success the slot is Empty and the process that was
\* in the slot has exited or has been sent the forced kill, and a status
\* call made after it, with no start called in between, reports stopped.
StopSuccessLeavesStopped ==
    /\ (resp.op = "stop" /\ resp.kind = "ok")
          => (active_process = NoProc /\ procState[resp.pre] \in {"exited", "killed"})
    /\ (resp.op = "status" /\ sinceStop) => resp.kind = "stopped"

\* C6 as stated: reset called while the slot is not Empty fails with
\* ResetBlocked and neither checks for nor spawns the maintenance command.
ResetOnlyWhenEmpty ==
    (resp.op = "reset" /\ resp.pre # NoProc)
        => (resp.kind = "ResetBlocked" /\ ~resp.checkedScript /\ ~resp.ranMaint)

\* C6 as amended: reset is refused exactly when the slot holds a process that
\* has not exited; it then fails with ResetBlocked, neither checks for nor
\* spawns the maintenance command and changes nothing.  On an Empty slot, or a
\* slot whose process has exited, it is not refused and checks for the command.
ResetBlockedIffWorkerAlive ==
    [][resp'.op = "reset"
          => IF active_process # NoProc /\ Alive(active_process)
             THEN /\ resp'.kind = "ResetBlocked"
                  /\ ~resp'.checkedScript
                  /\ ~resp'.ranMaint
                  /\ UNCHANGED <<active_process, procState, pending, maint, logfile>>
             ELSE /\ resp'.kind # "ResetBlocked"
                  /\ resp'.checkedScript]_vars

ResetBlockedSeen ==
    /\ resp.op = "reset"
    /\ resp.pre # NoProc
    /\ resp.preAlive
    /\ resp.kind = "ResetBlocked"

\* C7: a reset whose maintenance command has not exited after 30 time units
\* returns ResetTimeout (and only such a reset does); the maintenance process
\* is left running, unsignalled, the slot is as it was, and the supervisor
\* can take the next command.
ResetTimesOut ==
    /\ (resp.op = "reset" /\ resp.ranMaint)
          => (resp.dur > ResetTimeout <=> resp.kind = "ResetTimeout")
    /\ (resp.op = "reset" /\ resp.kind = "ResetTimeout")
          => /\ resp.ranMaint
             /\ resp.sent = <<>>
             /\ maint >= 1
             /\ active_process = resp.pre
             /\ ENABLED GetStatus

ResetTimeoutSeen ==
    /\ resp.op = "reset"
    /\ resp.kind = "ResetTimeout"
    /\ resp.dur > ResetTimeout
    /\ maint >= 1

\* C8: for every limit N >= 0, get_logs returns at most N records read from
\* the file.
LogsAtMostLimit ==
    (resp.op = "logs" /\ resp.fromFile /\ resp.limit >= 0)
        => Len(resp.logs) <= resp.limit

Levels(logs) == [i \in 1..Len(logs) |-> logs[i].level]

\* C9: with no log file, get_logs returns exactly 3 synthesized records, with
\* levels success/info/info if the slot holds a process that has not exited,
\* and info/info/success otherwise (slot Empty or its process exited).
NoFileSynthesizes ==
    (resp.op = "logs" /\ logfile.state = "missing")
        => /\ ~resp.fromFile
           /\ Len(resp.logs) = 3
           /\ Levels(resp.logs) = IF resp.pre # NoProc /\ resp.preAlive
                                  THEN <<"success", "info", "info">>
                                  ELSE <<"info", "info", "success">>

NoFileStaleSlotSeen ==
    /\ resp.op = "logs"
    /\ logfile.state = "missing"
    /\ resp.pre # NoProc
    /\ ~resp.preAlive
    /\ Levels(resp.logs) = <<"info", "info", "success">>

\* the last n lines of the file, for n >= 1
LastLines(lines, n) ==
    SubSeq(lines, IF Len(lines) > n THEN Len(lines) - n + 1 ELSE 1, Len(lines))

IsBlank(line) == \A i \in 1..Len(line) : line[i] \in Whitespace

NonBlank(lines) == SelectSeq(lines, LAMBDA l : ~IsBlank(l))

IsSuffix(t, s) == Len(t) <= Len(s) /\ SubSeq(s, Len(s) - Len(t) + 1, Len(s)) = t

IsPrefix(t, s) == Len(t) <= Len(s) /\ SubSeq(s, 1, Len(t)) = t

\* the record is read from this line: its message ends the line, its
\* timestamp starts the line or is the wall clock, its level is a file level
DerivedFrom(rec, line) ==
    /\ rec.level \in {"info", "warning", "error"}
    /\ rec.message # <<>>
    /\ \E k \in 0..Len(line) :
          IsSuffix(rec.message, SubSeq(line, 1, Len(line) - k)) /\
          \A i \in (Len(line) - k + 1)..Len(line) : line[i] \in Whitespace
    /\ rec.timestamp = Now \/ \E k \in 0..Len(line) :
          IsPrefix(rec.timestamp, SubSeq(line, k + 1, Len(line))) /\
          \A i \in 1..k : line[i] \in Whitespace

\* C10 as stated: with a readable log file and limit >= 1, each of the last
\* `limit` lines yields one record, in file order, and nothing else is returned.
EveryKeptLineYieldsRecord ==
    (resp.op = "logs" /\ Readable /\ resp.limit >= 1
       /\ LastLines(logfile.lines, resp.limit) # <<>>)
        => /\ resp.fromFile
           /\ Len(resp.logs) = Len(LastLines(logfile.lines, resp.limit))
           /\ \A i \in 1..Len(resp.logs) :
                 DerivedFrom(resp.logs[i], LastLines(logfile.lines, resp.limit)[i])

\* C10 as amended: with a readable log file and limit >= 1, each of the last
\* `limit` lines that is not blank yields one record, in file order, blank
\* lines yield none and nothing else is returned; if none of them yields a
\* record the three synthesized records are returned instead.
EveryNonBlankKeptLineYieldsRecord ==
    (resp.op = "logs" /\ Readable /\ resp.limit >= 1)
        => IF NonBlank(LastLines(logfile.lines, resp.limit)) = <<>>
           THEN ~resp.fromFile /\ Len(resp.logs) = 3
                /\ \A i \in 1..3 : resp.logs[i].timestamp = Now
           ELSE /\ resp.fromFile
                /\ Len(resp.logs) = Len(NonBlank(LastLines(logfile.lines, resp.limit)))
                /\ \A i \in 1..Len(resp.logs) :
                      DerivedFrom(resp.logs[i],
                                  NonBlank(LastLines(logfile.lines, resp.limit))[i])

BlankLineSkippedSeen ==
    /\ resp.op = "logs"
    /\ resp.limit = 2
    /\ logfile = [state |-> "readable", lines |-> <<LineBlank, LineGood>>]
    /\ resp.fromFile
    /\ Len(resp.logs) = 1
    /\ resp.logs[1].message = <<"h", "e", "l", "l", "o">>
\* the line without the blanks at its two ends
Trimmed(line) ==
    IF IsBlank(line) THEN <<>>
    ELSE SubSeq(line,
                CHOOSE i \in 1..Len(line) :
                    line[i] \notin Whitespace /\ \A k \in 1..(i - 1) : line[k] \in Whitespace,
                CHOOSE j \in 1..Len(line) :
                    line[j] \notin Whitespace
                    /\ \A k \in (j + 1)..Len(line) : line[k] \in Whitespace)

SepAt(line, i) ==
    i >= 1 /\ i + 2 <= Len(line) /\ line[i] = " " /\ line[i + 1] = "|" /\ line[i + 2] = " "

\* where the first separator starts, and the first one after it (0 if none)
FirstSep(line) ==
    IF \E i \in 1..Len(line) : SepAt(line, i)
    THEN CHOOSE i \in 1..Len(line) :
             SepAt(line, i) /\ \A k \in 1..(i - 1) : ~SepAt(line, k)
    ELSE 0

SecondSep(line) ==
    IF FirstSep(line) # 0 /\ \E j \in (FirstSep(line) + 3)..Len(line) : SepAt(line, j)
    THEN CHOOSE j \in (FirstSep(line) + 3)..Len(line) :
             SepAt(line, j) /\ \A k \in (FirstSep(line) + 3)..(j - 1) : ~SepAt(line, k)
    ELSE 0

\* the two characters are the same letter, capital or small, or are equal
SameLetter(c, d) ==
    \/ c = d
    \/ \E i \in 1..Len(UpperLetters) :
          {c, d} = {UpperLetters[i], LowerLetters[i]}

\* the field spells the word, whatever the case of its letters
Spells(mid, word) ==
    Len(mid) = Len(word) /\ \A i \in 1..Len(mid) : SameLetter(mid[i], word[i])

\* the level the middle token stands for, whatever its case
LevelNamed(mid) ==
    IF \E w \in {WordInfo, WordDebug} : Spells(mid, w) THEN "info"
    ELSE IF \E w \in {WordWarn, WordWarning} : Spells(mid, w) THEN "warning"
    ELSE IF \E w \in {WordErr, WordError, WordCritical} : Spells(mid, w) THEN "error"
    ELSE "info"

\* the record the parsing rule gives for a trimmed, non-empty line
RecordOf(line) ==
    IF SecondSep(line) # 0
    THEN [timestamp |-> SubSeq(line, 1, FirstSep(line) - 1),
          level |-> LevelNamed(SubSeq(line, FirstSep(line) + 3, SecondSep(line) - 1)),
          message |-> SubSeq(line, SecondSep(line) + 3, Len(line))]
    ELSE [timestamp |-> Now, level |-> "info", message |-> line]

\* C11: every trimmed, non-empty line yields one record with a level among
\* info, warning and error: with two separators, the text before the first
\* as timestamp, the text after the second as message and the level named by
\* the middle token whatever its case (info for any other token); with fewer,
\* an info record holding the whole line.  No file record has level success.
ParsingIsTotal ==
    /\ (resp.op = "logs" /\ Readable /\ Len(logfile.lines) = 1 /\ resp.limit >= 1
          /\ ~IsBlank(logfile.lines[1]))
          => /\ resp.fromFile
             /\ resp.logs = <<RecordOf(Trimmed(logfile.lines[1]))>>
    /\ (resp.op = "logs" /\ resp.fromFile)
          => \A i \in 1..Len(resp.logs) :
                resp.logs[i].level \in {"info", "warning", "error"}

ThirdSeparatorKeptSeen ==
    /\ resp.op = "logs"
    /\ resp.fromFile
    /\ resp.logs = <<[timestamp |-> <<"x">>, level |-> "error",
                      message |-> <<"a", " ", "|", " ", "b">>]>>
AllLevels == {"info", "warning", "error", "success"}

\* C12: get_logs always returns a result and never an empty one: whatever
\* the file (missing, empty, unreadable, malformed lines) and the slot, at
\* least one record comes back, each with a level of the record type; a
\* failure that no inner handler absorbs gives exactly one record, of level
\* error; otherwise records not read from the file are the three
\* placeholders, none of level error.
LogsNeverEmpty ==
    resp.op = "logs"
        => /\ resp.kind \in {"ok", "error_record"}
           /\ Len(resp.logs) >= 1
           /\ \A i \in 1..Len(resp.logs) : resp.logs[i].level \in AllLevels
           /\ resp.kind = "error_record"
                 => (~resp.fromFile /\ Len(resp.logs) = 1 /\ resp.logs[1].level = "error")
           /\ (resp.kind = "ok" /\ ~resp.fromFile)
                 => (Len(resp.logs) = 3 /\
                     \A i \in 1..3 : resp.logs[i].level # "error")

UnreadableFileAnsweredSeen ==
    /\ resp.op = "logs"
    /\ logfile.state = "unreadable"
    /\ resp.kind = "error_record"
    /\ Len(resp.logs) = 1
IsPrefixOf(t, s) == Len(t) <= Len(s) /\ \A i \in 1..Len(t) : t[i] = s[i]

\* C13: a stop that goes ahead makes its signalling calls in the order
\* interrupt, terminate, kill: the interrupt first; terminate only if the
\* process has not ended by the check after the 2-unit wait; kill only if it
\* has not ended by the check after the further 1-unit wait; nothing after a
\* check that found it ended; and at most 3 time units are spent waiting.
StopEscalatesInOrder ==
    (resp.op = "stop" /\ resp.kind # "NotRunning")
        => /\ resp.sent # <<>>
           /\ IsPrefixOf(resp.sent, <<"SIGINT", "SIGTERM", "SIGKILL">>)
           /\ Len(resp.sent) >= 2 => resp.exits \in {"wait2", "kill", "never"}
           /\ Len(resp.sent) >= 3 => resp.exits \in {"kill", "never"}
           /\ (resp.kind = "ok" /\ resp.exits \in {"before", "wait1"})
                 => resp.sent = <<"SIGINT">>
           /\ (resp.kind = "ok" /\ resp.exits = "wait2")
                 => resp.sent = <<"SIGINT", "SIGTERM">>
           /\ (resp.kind = "ok" /\ resp.exits \in {"kill", "never"})
                 => resp.sent = <<"SIGINT", "SIGTERM", "SIGKILL">>
           /\ resp.waited <= StopWait1 + StopWait2
           /\ resp.waited = (IF Len(resp.sent) >= 2 THEN StopWait1 ELSE 0)
                            + (IF Len(resp.sent) >= 3 THEN StopWait2 ELSE 0)
                            + (IF resp.kind = "ok" /\ Len(resp.sent) = 1 THEN StopWait1
                               ELSE IF resp.kind = "ok" /\ Len(resp.sent) = 2
                               THEN StopWait2 ELSE 0)

StopAfterTerminateSeen ==
    /\ resp.op = "stop"
    /\ resp.kind = "ok"
    /\ resp.exits = "wait2"
    /\ resp.sent = <<"SIGINT", "SIGTERM">>
    /\ resp.waited = StopWait1 + StopWait2

\* C14: status answers running, with the slot's pid, exactly when the slot is
\* occupied and its process has not exited, and stopped otherwise; a status or
\* a start that finds the slot holding an exited process empties the slot
\* first: status then answers stopped, and start goes on to the spawn (a new
\* worker in the slot, or SpawnFailed with the slot empty) and never answers
\* AlreadyRunning; neither answers an error for the stale slot.
StaleSlotCleanedLazily ==
    /\ resp.op = "status"
          => /\ resp.kind \in {"running", "stopped"}
             /\ resp.kind = "running" <=> (resp.pre # NoProc /\ resp.preAlive)
             /\ resp.kind = "running"
                   => (resp.pid = resp.pre /\ active_process = resp.pre)
             /\ resp.kind = "stopped" => active_process = NoProc
    /\ (resp.op = "start_get" /\ resp.pre # NoProc /\ ~resp.preAlive)
          => /\ resp.kind \in {"ok", "SpawnFailed"}
             /\ resp.kind = "ok"
                   => /\ resp.spawned \notin {NoProc, resp.pre}
                      /\ active_process = resp.spawned
                      /\ Alive(resp.spawned)
             /\ resp.kind = "SpawnFailed" => active_process = NoProc
    /\ (resp.op = "start_post" /\ resp.pre # NoProc /\ ~resp.preAlive)
          => (resp.kind = "awaiting" /\ active_process = NoProc)

StaleSlotRestartedSeen ==
    /\ resp.op = "start_get"
    /\ resp.pre # NoProc
    /\ ~resp.preAlive
    /\ resp.kind = "ok"
    /\ active_process = resp.spawned

\* C15: a start whose spawn fails answers SpawnFailed, creates no worker and
\* leaves the slot empty; a start creates exactly one worker when it answers
\* success and none when it answers an error or raises.
SpawnFailureLeavesSlotEmpty ==
    resp.op \in StartOps
        => /\ resp.kind = "ok"
                 => (Cardinality(Spawned) = resp.nprocs + 1 /\ resp.spawned # NoProc)
           /\ resp.kind \in {"AlreadyRunning", "SpawnFailed", "raised"}
                 => (Cardinality(Spawned) = resp.nprocs /\ resp.spawned = NoProc)
           /\ resp.kind = "SpawnFailed" => active_process = NoProc

\* C16: a stop whose signalling call raises answers StopFailed and leaves the
\* slot holding the handle it held, the process being as it was; a status
\* called next answers from the liveness probe (running, with that pid), and
\* a start called next is refused as already running.
StopFailureKeepsSlot ==
    [][/\ (resp'.op = "stop" /\ resp'.kind = "StopFailed")
             => /\ active_process # NoProc
                /\ active_process' = active_process
                /\ procState' = procState
       /\ (resp.op = "stop" /\ resp.kind = "StopFailed" /\ resp'.op = "status")
             => /\ resp'.kind = "running"
                /\ resp'.pid = resp.pre
                /\ active_process' = resp.pre
       /\ (resp.op = "stop" /\ resp.kind = "StopFailed"
              /\ resp'.op \in {"start_get", "start_post"})
             => /\ resp'.kind = "AlreadyRunning"
                /\ active_process' = resp.pre]_vars

StopFailedAtKillSeen ==
    /\ resp.op = "stop"
    /\ resp.kind = "StopFailed"
    /\ resp.sent = <<"SIGINT", "SIGTERM", "SIGKILL">>
    /\ active_process = resp.pre
    /\ Alive(active_process)

\* C17: reset leaves the slot as it found it whatever it answers (blocked,
\* script missing, failed, timed out, raised or success), a slot holding an
\* exited process included.
ResetLeavesSlot ==
    resp.op = "reset"
        => /\ active_process = resp.pre
           /\ resp.kind \in {"ResetBlocked", "ResetScriptMissing", "ResetException",
                             "ResetTimeout", "ResetFailed", "ok"}

ResetOnStaleSlotSeen ==
    /\ resp.op = "reset"
    /\ resp.kind = "ok"
    /\ resp.pre # NoProc
    /\ ~resp.preAlive
    /\ active_process = resp.pre

\* C18: the slot changes only in start, stop and status; the log reader,
\* health and reset leave it alone, so a slot whose worker has exited stays
\* occupied over them; health answers strategy_running exactly when the slot
\* is occupied and its process has not exited.
OnlyStartStopStatusWriteSlot ==
    [][/\ active_process' # active_process
             => resp'.op \in StartOps \cup {"stop", "status"}
       /\ resp'.op \in {"logs", "health", "reset"}
             => active_process' = active_process
       /\ resp'.op = "health"
             => (resp'.kind = "strategy_running"
                    <=> (active_process # NoProc /\ Alive(active_process)))]_vars

HealthOnStaleSlotSeen ==
    /\ resp.op = "health"
    /\ resp.kind = "not_running"
    /\ resp.pre # NoProc
    /\ ~resp.preAlive
    /\ active_process = resp.pre

\* C19: a stop that goes ahead makes its signalling calls on the process
\* that occupied the slot when it began and on no other: no worker is
\* spawned during it, no other process changes state, and the slot it leaves
\* is the one it found or empty.
StopSignalsOnlySlotProcess ==
    [][(resp'.op = "stop" /\ resp'.kind # "NotRunning")
          => /\ resp'.target = active_process
             /\ resp'.pre = active_process
             /\ \A p \in Pids \ {active_process} : procState'[p] = procState[p]
             /\ active_process' \in {active_process, NoProc}]_vars

StopSparesOtherWorkerSeen ==
    /\ resp.op = "stop"
    /\ resp.kind = "ok"
    /\ Len(resp.sent) >= 2
    /\ resp.target = resp.pre
    /\ \E p \in Pids \ {resp.pre} : Alive(p)

\* C20: a stop that finds the slot holding an exited process answers
\* success after the interrupt call alone (no terminate, no kill) and leaves
\* the slot empty.
StopOnStaleSlotSucceeds ==
    (resp.op = "stop" /\ resp.pre # NoProc /\ ~resp.preAlive)
        => /\ resp.kind = "ok"
           /\ resp.sent = <<"SIGINT">>
           /\ resp.exits = "before"
           /\ active_process = NoProc

StopOnStaleSlotSeen ==
    /\ resp.op = "stop"
    /\ resp.pre # NoProc
    /\ ~resp.preAlive
    /\ resp.kind = "ok"
    /\ active_process = NoProc
====
